---- MODULE Spec2Model ----
(***************************************************************************)
(* Model of src/main.py: headless login, auth-probe polling, fetch of the  *)
(* player universe and of the caller's team, evaluation of every           *)
(* single-transfer upgrade under budget and 3-per-club, ranking, and the   *)
(* Telegram notification.                                                  *)
(*                                                                         *)
(* Numeric representation.  Costs and the bank are integers in tenths, as  *)
(* in the API.  An expected-points value is a number of thousandths; the   *)
(* "delta" field of a suggestion is round(delta, 2), a number of           *)
(* hundredths.  "out_cost"/"in_cost" are cost / 10.0, kept as the integer  *)
(* numerator over 10.  JSON null is the string "null".                     *)
(***************************************************************************)
EXTENDS Integers, Sequences, FiniteSets, TLC

\* ----- bounds -----
MaxBank == 1
MaxRoster == 4

\* ----- program constants -----
ProbeLimit == 24
ProbeWaitMs == 500
ClubMax == 3
TopN == 3

Positions == {1, 2, 3, 4}

\* ----- input domain -----
\* The players the bootstrap-static endpoint can list; a fetched universe is
\* any sub-list of these (ids are unique within a universe).
Catalogue ==
  << [id |-> 1, web_name |-> "Able",  element_type |-> 3, team |-> 1, now_cost |-> 40, status |-> "a", ep_next |-> "0.0"],
     [id |-> 2, web_name |-> "Baker", element_type |-> 3, team |-> 1, now_cost |-> 41, status |-> "a", ep_next |-> "0.012"],
     [id |-> 3, web_name |-> "Cole",  element_type |-> 3, team |-> 1, now_cost |-> 40, status |-> "d", ep_next |-> "0.5"],
     [id |-> 4, web_name |-> "Dunn",  element_type |-> 3, team |-> 2, now_cost |-> 40, status |-> "a", ep_next |-> "null"],
     [id |-> 5, web_name |-> "Evans", element_type |-> 3, team |-> 1, now_cost |-> 41, status |-> "d", ep_next |-> "0.014"],
     [id |-> 6, web_name |-> "Evans", element_type |-> 3, team |-> 2, now_cost |-> 40, status |-> "a", ep_next |-> "0.004"],
     [id |-> 7, web_name |-> "Ford",  element_type |-> 3, team |-> 2, now_cost |-> 42, status |-> "i", ep_next |-> "0.9"],
     [id |-> 8, web_name |-> "Gray",  element_type |-> 1, team |-> 2, now_cost |-> 40, status |-> "a", ep_next |-> "0.3"],
     [id |-> 9, web_name |-> "Hale",  element_type |-> 1, team |-> 1, now_cost |-> 41, status |-> "s", ep_next |-> "n/a"] >>

CatalogueIds == {Catalogue[i].id : i \in 1..Len(Catalogue)}

\* HTTP statuses the endpoints answer with
HttpStatuses == {200, 403}

Range(s) == {s[i] : i \in 1..Len(s)}

Min(a, b) == IF a < b THEN a ELSE b

\* ascending list of a finite set of integers
RECURSIVE SortedSeq(_)
SortedSeq(S) ==
  IF S = {} THEN <<>>
  ELSE LET m == CHOOSE x \in S : \A y \in S : x <= y
       IN <<m>> \o SortedSeq(S \ {m})

\* the sub-list of the catalogue with ids in S, in catalogue order
Universe(S) ==
  LET keep(p) == p.id \in S IN SelectSeq(Catalogue, keep)

\* ----- utils -----
\* the strings float() accepts, and float(v) in thousandths
NumericStrings == {"0.0", "0.004", "0.012", "0.014", "0.3", "0.5", "0.9"}

ParseFloat(v) ==
  CASE v = "0.0"   -> 0
    [] v = "0.004" -> 4
    [] v = "0.012" -> 12
    [] v = "0.014" -> 14
    [] v = "0.3"   -> 300
    [] v = "0.5"   -> 500
    [] v = "0.9"   -> 900

\* float(v) unless v is None, "" or "0.0"; 0.0 when float() raises
ep(v) ==
  IF v \in {"null", "", "0.0"} THEN 0
  ELSE IF v \in NumericStrings THEN ParseFloat(v) ELSE 0

\* round(x, 2): thousandths to hundredths, ties to even
Round2(x) ==
  LET q == x \div 10
      r == x % 10
  IN IF r < 5 THEN q
     ELSE IF r > 5 THEN q + 1
     ELSE IF q % 2 = 0 THEN q ELSE q + 1

\* dict.get(k, default)
Get(d, k, default) == IF k \in DOMAIN d THEN d[k] ELSE default

RECURSIVE team_counts_from(_, _, _)
team_counts_from(player_ids, by, c) ==
  IF player_ids = <<>> THEN c
  ELSE LET t == by[Head(player_ids)].team
           c2 == [k \in DOMAIN c \cup {t} |-> IF k = t THEN Get(c, t, 0) + 1 ELSE c[k]]
       IN team_counts_from(Tail(player_ids), by, c2)

team_counts(player_ids, by) == team_counts_from(player_ids, by, << >>)

\* ----- engine pieces (main) -----
\* by_id = {p["id"]: p for p in elements}
ById(els) ==
  [pid \in {els[i].id : i \in 1..Len(els)} |->
     els[CHOOSE i \in 1..Len(els) : els[i].id = pid /\ \A j \in 1..Len(els) : els[j].id = pid => j <= i]]

\* mutant: the status filter is left out
InPool_anyStatus(p, ids) == p.id \notin Range(ids)

\* a universe player enters the candidate pool: not owned, active or doubtful
InPool(p, ids) == p.id \notin Range(ids) /\ p.status \in {"a", "d"}

BuildPool(els, ids) ==
  [pos \in Positions |->
     LET keep(p) == InPool(p, ids) /\ p.element_type = pos
     IN SelectSeq(els, keep)]

\* mutant: the sold player's slot is not freed
PostSaleCounts_noDecrement(cnt, sell_club) == cnt

\* counts = dict(club_cnt); counts[sell_club] -= 1
PostSaleCounts(cnt, sell_club) == [cnt EXCEPT ![sell_club] = @ - 1]

\* mutant: strict budget bound
OverBudget_strict(buy_cost, budget) == buy_cost >= budget

\* if buy_cost > budget: continue
OverBudget(buy_cost, budget) == buy_cost > budget

\* mutant: the incoming player is not counted
OverQuota_notCountingBuy(cnts, buy_club) == Get(cnts, buy_club, 0) > ClubMax

\* if counts.get(buy_club, 0) + 1 > 3: continue
OverQuota(cnts, buy_club) == Get(cnts, buy_club, 0) + 1 > ClubMax

\* if delta <= 0: continue
NoGain(delta) == delta <= 0

\* the record appended for (sell, cand); sell and buy are the ids of the two
\* players the record was built from (the loop variables at the append)
Suggestion(sellp, cand, delta) ==
  [out_name |-> sellp.web_name,
   in_name  |-> cand.web_name,
   delta    |-> Round2(delta),
   out_cost |-> sellp.now_cost,
   in_cost  |-> cand.now_cost,
   sell     |-> sellp.id,
   buy      |-> cand.id]

\* the inner loop over pool_by_pos[sell_pos]
RECURSIVE EvalCands(_, _, _, _)
EvalCands(sellp, cands, cnts, budget) ==
  IF cands = <<>> THEN <<>>
  ELSE LET cand == Head(cands)
           rest == EvalCands(sellp, Tail(cands), cnts, budget)
           delta == ep(cand.ep_next) - ep(sellp.ep_next)
       IN IF OverBudget(cand.now_cost, budget) THEN rest
          ELSE IF OverQuota(cnts, cand.team) THEN rest
          ELSE IF NoGain(delta) THEN rest
          ELSE <<Suggestion(sellp, cand, delta)>> \o rest

\* suggestions.sort(key=delta, reverse=True): stable, descending
RECURSIVE InsertDesc(_, _)
InsertDesc(sorted, x) ==
  IF sorted = <<>> THEN <<x>>
  ELSE IF Head(sorted).delta >= x.delta
       THEN <<Head(sorted)>> \o InsertDesc(Tail(sorted), x)
       ELSE <<x>> \o sorted

RECURSIVE SortDesc(_, _)
SortDesc(todo, sorted) ==
  IF todo = <<>> THEN sorted
  ELSE SortDesc(Tail(todo), InsertDesc(sorted, Head(todo)))

\* key = (s["out_name"], s["in_name"])
DedupKey(s) == <<s.out_name, s.in_name>>

\* the dedup loop, stopping at three
RECURSIVE PickTop(_, _, _)
PickTop(todo, top, seen) ==
  IF todo = <<>> \/ Len(top) = TopN THEN top
  ELSE LET s == Head(todo)
       IN IF DedupKey(s) \in seen
          THEN PickTop(Tail(todo), top, seen)
          ELSE PickTop(Tail(todo), Append(top, s), seen \cup {DedupKey(s)})

\* ----- state -----
VARIABLES
  pc,            \* where main / login_and_context stands
  err,           \* the exception that ended the run, "none" otherwise
  filled_user, filled_pass,
  ok, probes, waited_ms,
  ctx,           \* the browser context main holds: "none" or "session"
  boot_status, team_status,   \* status of the two fetches, 0 before
  malformed,     \* the fetch whose body could not be used: "none", "boot", "team"
  elements, by_id, team_ids, bank,
  club_cnt, pool_by_pos,
  si,            \* index in team_ids of the next sell of the outer loop
  counts,        \* the per-sell copy of club_cnt of the last iteration
  suggestions, top3,
  sent,          \* the texts handed to tg_send, in order
  tg_status,     \* status the Telegram POST returned, 0 when none did
  tg_raised,     \* requests.post raised (no response at all)
  tg_logged,     \* "Telegram error:" was printed
  browser_closed \* browser.close() was awaited

vars == <<pc, err, filled_user, filled_pass, ok, probes, waited_ms, ctx,
          boot_status, team_status, malformed, elements, by_id, team_ids, bank,
          club_cnt, pool_by_pos, si, counts, suggestions, top3, sent, tg_status,
          tg_raised, tg_logged, browser_closed>>

loginVars == <<filled_user, filled_pass, ok, probes, waited_ms>>
fetchVars == <<boot_status, team_status, malformed, elements, by_id, team_ids, bank, club_cnt, pool_by_pos>>
engineVars == <<si, counts, suggestions, top3>>
sinkVars == <<sent, tg_status, tg_raised, tg_logged>>

Init ==
  /\ pc = "fill"
  /\ err = "none"
  /\ filled_user = FALSE /\ filled_pass = FALSE
  /\ ok = FALSE /\ probes = 0 /\ waited_ms = 0
  /\ ctx = "none"
  /\ boot_status = 0 /\ team_status = 0 /\ malformed = "none"
  /\ elements = <<>> /\ by_id = << >> /\ team_ids = <<>> /\ bank = 0
  /\ club_cnt = << >> /\ pool_by_pos = [pos \in Positions |-> <<>>]
  /\ si = 1 /\ counts = << >>
  /\ suggestions = <<>> /\ top3 = <<>>
  /\ sent = <<>> /\ tg_status = 0 /\ tg_raised = FALSE /\ tg_logged = FALSE
  /\ browser_closed = FALSE

\* ----- login_and_context -----
\* first attempt at both inputs
FillInputs ==
  /\ pc = "fill"
  /\ \E u \in BOOLEAN, p \in BOOLEAN :
       /\ filled_user' = u /\ filled_pass' = p
       /\ pc' = IF u /\ p THEN "submit" ELSE "reveal"
  /\ UNCHANGED <<err, ok, probes, waited_ms, fetchVars, engineVars, sinkVars, browser_closed, ctx>>

\* the form was gated: click, wait, retry the inputs still missing; raise
\* PWTimeout when one is still missing
RevealForm ==
  /\ pc = "reveal"
  /\ \E u \in BOOLEAN, p \in BOOLEAN :
       LET fu == filled_user \/ u
           fp == filled_pass \/ p
       IN /\ filled_user' = fu /\ filled_pass' = fp
          /\ IF fu /\ fp
             THEN pc' = "submit" /\ err' = err
             ELSE pc' = "error" /\ err' = "PWTimeout"
  /\ UNCHANGED <<ok, probes, waited_ms, fetchVars, engineVars, sinkVars, browser_closed, ctx>>

\* click submit; ok = False
Submit ==
  /\ pc = "submit"
  /\ ok' = FALSE /\ probes' = 0
  /\ pc' = "poll"
  /\ UNCHANGED <<err, filled_user, filled_pass, waited_ms, fetchVars, engineVars, sinkVars, browser_closed, ctx>>

\* r.status == 200
ProbeOk(status) == status = 200

\* mutant: one probe too many
MoreProbes_offByOne(n) == n <= ProbeLimit

\* for _ in range(24): another iteration is due
MoreProbes(n) == n < ProbeLimit

\* one iteration of the polling loop
Probe ==
  /\ pc = "poll"
  /\ MoreProbes(probes)
  /\ \E status \in HttpStatuses :
       /\ probes' = probes + 1
       /\ IF ProbeOk(status)
          THEN ok' = TRUE /\ pc' = "polled" /\ waited_ms' = waited_ms
          ELSE ok' = ok /\ pc' = "poll" /\ waited_ms' = waited_ms + ProbeWaitMs
  /\ UNCHANGED <<err, filled_user, filled_pass, fetchVars, engineVars, sinkVars, browser_closed, ctx>>

\* range(24) is exhausted
PollExhausted ==
  /\ pc = "poll"
  /\ ~MoreProbes(probes)
  /\ pc' = "polled"
  /\ UNCHANGED <<err, loginVars, fetchVars, engineVars, sinkVars, browser_closed, ctx>>

\* if not ok: raise RuntimeError; return browser, ctx.  The locals of the
\* call end with the return (the traceback of a raise keeps them).
LoginResult ==
  /\ pc = "polled"
  /\ IF ~ok
     THEN /\ pc' = "error" /\ err' = "RuntimeError"
          /\ UNCHANGED <<loginVars, ctx>>
     ELSE /\ pc' = "boot" /\ err' = err
          /\ ctx' = "session"
          /\ filled_user' = FALSE /\ filled_pass' = FALSE
          /\ ok' = FALSE /\ probes' = 0 /\ waited_ms' = 0
  /\ UNCHANGED <<fetchVars, engineVars, sinkVars, browser_closed>>

\* ----- main -----
\* mutant: the status of the response is not checked
raise_for_status_unchecked(status) == FALSE

\* r.raise_for_status() raises
raise_for_status(status) == status >= 400

\* a squad the game server can hold: at most three players of a club
LegalSquad(S, by) ==
  \A t \in {by[pid].team : pid \in S} :
     Cardinality({pid \in S : by[pid].team = t}) <= ClubMax

\* GET bootstrap-static; elements, by_id
FetchBoot ==
  /\ pc = "boot"
  /\ \E status \in HttpStatuses, bad \in BOOLEAN, S \in SUBSET CatalogueIds :
       /\ boot_status' = status
       /\ IF raise_for_status(status)
          THEN /\ pc' = "error" /\ err' = "HTTPError"
               /\ UNCHANGED <<malformed, elements, by_id>>
          ELSE IF bad
          THEN /\ pc' = "error" /\ err' = "KeyError" /\ malformed' = "boot"
               /\ UNCHANGED <<elements, by_id>>
          ELSE /\ pc' = "team" /\ err' = err /\ malformed' = malformed
               /\ elements' = Universe(S)
               /\ by_id' = ById(Universe(S))
  /\ UNCHANGED <<loginVars, team_status, team_ids, bank, club_cnt, pool_by_pos,
                 engineVars, sinkVars, browser_closed, ctx>>

\* GET my-team; picks, bank, team_ids, club_cnt, pool_by_pos, suggestions = []
FetchTeam ==
  /\ pc = "team"
  /\ \E status \in HttpStatuses, bad \in BOOLEAN,
        S \in SUBSET DOMAIN by_id, b \in 0..MaxBank :
       /\ team_status' = status
       /\ IF raise_for_status(status)
          THEN /\ pc' = "error" /\ err' = "HTTPError"
               /\ UNCHANGED <<malformed, team_ids, bank, club_cnt, pool_by_pos, si, suggestions>>
          ELSE IF bad
          THEN /\ pc' = "error" /\ err' = "KeyError" /\ malformed' = "team"
               /\ UNCHANGED <<team_ids, bank, club_cnt, pool_by_pos, si, suggestions>>
          ELSE /\ Cardinality(S) <= MaxRoster
               /\ LegalSquad(S, by_id)
               /\ pc' = "eval" /\ err' = err /\ malformed' = malformed
               /\ team_ids' = SortedSeq(S)
               /\ bank' = b
               /\ club_cnt' = team_counts(SortedSeq(S), by_id)
               /\ pool_by_pos' = BuildPool(elements, SortedSeq(S))
               /\ suggestions' = <<>>
               /\ si' = 1
  /\ UNCHANGED <<loginVars, boot_status, elements, by_id, counts, top3, sinkVars, browser_closed, ctx>>

\* one iteration of "for sell in team_ids"
EvalSell ==
  /\ pc = "eval"
  /\ si <= Len(team_ids)
  /\ LET sell      == team_ids[si]
         sell_pos  == by_id[sell].element_type
         sell_cost == by_id[sell].now_cost
         sell_club == by_id[sell].team
         cnts      == PostSaleCounts(club_cnt, sell_club)
         budget    == bank + sell_cost
     IN /\ counts' = cnts
        /\ suggestions' = suggestions \o EvalCands(by_id[sell], pool_by_pos[sell_pos], cnts, budget)
  /\ si' = si + 1
  /\ UNCHANGED <<pc, err, loginVars, fetchVars, top3, sinkVars, browser_closed, ctx>>

\* sort, dedup, keep three
Rank ==
  /\ pc = "eval"
  /\ si > Len(team_ids)
  /\ LET sorted == SortDesc(suggestions, <<>>)
     IN /\ suggestions' = sorted
        /\ top3' = PickTop(sorted, <<>>, {})
  /\ pc' = "send"
  /\ UNCHANGED <<err, loginVars, fetchVars, si, counts, sinkVars, browser_closed, ctx>>

\* the message text: its kind and one line per suggestion
Line(i, s) ==
  [n |-> i, out_name |-> s.out_name, in_name |-> s.in_name, delta |-> s.delta,
   out_cost |-> s.out_cost, in_cost |-> s.in_cost]

Message(top) ==
  IF top = <<>>
  THEN [kind |-> "none", lines |-> <<>>]
  ELSE [kind |-> "top", lines |-> [i \in 1..Len(top) |-> Line(i, top[i])]]

\* tg_send(text): POST; print the error on a non-200 status
Send ==
  /\ pc = "send"
  /\ sent' = Append(sent, Message(top3))
  /\ \E raised \in BOOLEAN, status \in HttpStatuses :
       IF raised
       THEN /\ tg_raised' = TRUE /\ tg_status' = tg_status /\ tg_logged' = tg_logged
            /\ pc' = "error" /\ err' = "RequestException"
       ELSE /\ tg_raised' = FALSE /\ tg_status' = status
            /\ tg_logged' = (status # 200)
            /\ pc' = "close" /\ err' = err
  /\ UNCHANGED <<loginVars, fetchVars, engineVars, browser_closed, ctx>>

\* await browser.close()
Close ==
  /\ pc = "close"
  /\ browser_closed' = TRUE
  /\ pc' = "done"
  /\ UNCHANGED <<err, loginVars, fetchVars, engineVars, sinkVars, ctx>>

Next ==
  \/ FillInputs
  \/ RevealForm
  \/ Submit
  \/ Probe
  \/ PollExhausted
  \/ LoginResult
  \/ FetchBoot
  \/ FetchTeam
  \/ EvalSell
  \/ Rank
  \/ Send
  \/ Close

Spec == Init /\ [][Next]_vars

TypeOK ==
  /\ pc \in {"fill", "reveal", "submit", "poll", "polled", "boot", "team",
              "eval", "send", "close", "done", "error"}
  /\ probes \in 0..ProbeLimit
  /\ Len(top3) <= TopN

\* ----- vocabulary of the properties -----
Owned == Range(team_ids)

UniverseIds == DOMAIN by_id

\* projected_score of a universe player, thousandths
Xp(pid) == ep(by_id[pid].ep_next)

ScoreDelta(s, b) == Xp(b) - Xp(s)

OwnedCount(t) == Cardinality({pid \in Owned : by_id[pid].team = t})

\* owned players of club t once s is sold and b bought
CountAfterSwap(s, b, t) ==
  Cardinality({pid \in (Owned \ {s}) \cup {b} : by_id[pid].team = t})

\* b is in the candidate pool of the owned player s
Candidate(s, b) ==
  /\ s \in Owned /\ b \in UniverseIds \ Owned
  /\ by_id[b].element_type = by_id[s].element_type
  /\ by_id[b].status \in {"a", "d"}

Affordable(s, b) == by_id[b].now_cost <= bank + by_id[s].now_cost

QuotaOk(s, b) == CountAfterSwap(s, b, by_id[b].team) <= ClubMax

\* the feasible positive-gain swaps, as (sell.id, buy.id)
PositiveSwaps ==
  {sb \in Owned \X UniverseIds :
     /\ Candidate(sb[1], sb[2]) /\ Affordable(sb[1], sb[2])
     /\ QuotaOk(sb[1], sb[2]) /\ ScoreDelta(sb[1], sb[2]) > 0}

\* the loop over team_ids is over
Evaluated == pc \in {"send", "close", "done"} \/ (pc = "eval" /\ si > Len(team_ids)) \/ tg_raised

\* top3 is computed
Returned == pc \in {"send", "close", "done"} \/ tg_raised

Suggested(s, b) == \E k \in 1..Len(suggestions) : suggestions[k].sell = s /\ suggestions[k].buy = b

ReturnedSwaps == {<<top3[i].sell, top3[i].buy>> : i \in 1..Len(top3)}

\* ----- C1 -----
\* C1: the returned list has exactly min(3, K) entries, K the number of
\* distinct feasible positive-gain (sell.id, buy.id) pairs.
C1_LengthIsMinOfNAndSwaps ==
  Returned => Len(top3) = Min(TopN, Cardinality(PositiveSwaps))

C3_BudgetInclusive ==
  /\ \A i \in 1..Len(top3) :
       /\ Affordable(top3[i].sell, top3[i].buy)
       /\ top3[i].in_cost <= bank + top3[i].out_cost
  /\ Evaluated =>
       \A s \in Owned, b \in UniverseIds :
         /\ ( /\ Candidate(s, b) /\ QuotaOk(s, b) /\ ScoreDelta(s, b) > 0
              /\ by_id[b].now_cost = bank + by_id[s].now_cost ) => Suggested(s, b)
         /\ by_id[b].now_cost >= bank + by_id[s].now_cost + 1 => ~Suggested(s, b)

\* a returned swap costs exactly the budget, and an otherwise acceptable
\* candidate one tenth above the budget was left out
C3_Witness ==
  /\ Returned
  /\ \E i \in 1..Len(top3) :
       by_id[top3[i].buy].now_cost = bank + by_id[top3[i].sell].now_cost
  /\ \E s \in Owned, b \in UniverseIds :
       /\ Candidate(s, b) /\ QuotaOk(s, b) /\ ScoreDelta(s, b) > 0
       /\ by_id[b].now_cost = bank + by_id[s].now_cost + 1
       /\ ~Suggested(s, b)

\* ----- C4 -----
\* C4: every returned swap has score_delta > 0 and the delta carried in its
\* record is strictly positive.
C4_PositiveGain ==
  \A i \in 1..Len(top3) :
     /\ ScoreDelta(top3[i].sell, top3[i].buy) > 0
     /\ top3[i].delta > 0

\* ----- C5 -----
\* C5: the returned list is in descending order of score_delta, and no
\* feasible positive-gain swap left out has a larger score_delta than a
\* returned one.
C5_DescendingByScoreDelta ==
  /\ \A i \in 1..Len(top3), j \in 1..Len(top3) :
       i < j => ScoreDelta(top3[i].sell, top3[i].buy) >= ScoreDelta(top3[j].sell, top3[j].buy)
  /\ Returned =>
       \A i \in 1..Len(top3) : \A sb \in PositiveSwaps \ ReturnedSwaps :
         ScoreDelta(top3[i].sell, top3[i].buy) >= ScoreDelta(sb[1], sb[2])

\* ----- C6 -----
\* C6: in every returned swap the incoming player is not owned, plays the
\* position of the outgoing one and has status "a" or "d"; the outgoing
\* player is owned.
C6_CandidatePool ==
  \A i \in 1..Len(top3) :
     /\ top3[i].sell \in Owned
     /\ top3[i].buy \in UniverseIds \ Owned
     /\ by_id[top3[i].buy].element_type = by_id[top3[i].sell].element_type
     /\ by_id[top3[i].buy].status \in {"a", "d"}

\* a swap is returned while a better-scoring affordable player was passed
\* over for its status and another for its position
C6_Witness ==
  /\ Returned
  /\ \E i \in 1..Len(top3) :
       LET s == top3[i].sell IN
       /\ \E b \in UniverseIds \ Owned :
            /\ by_id[b].status \notin {"a", "d"}
            /\ by_id[b].element_type = by_id[s].element_type
            /\ Affordable(s, b) /\ ScoreDelta(s, b) > 0
       /\ \E b \in UniverseIds \ Owned :
            /\ by_id[b].status \in {"a", "d"}
            /\ by_id[b].element_type # by_id[s].element_type
            /\ Affordable(s, b) /\ ScoreDelta(s, b) > 0

\* ----- C7 -----
\* the login inputs were not found, even after revealing the form
InputsNotFound ==
  ctx = "none" /\ pc \notin {"fill", "reveal"} /\ ~(filled_user /\ filled_pass)

\* the polling loop is over and no probe returned 200
NeverConfirmed ==
  ctx = "none" /\ pc \notin {"fill", "reveal", "submit", "poll", "polled"} /\ ~ok

FetchFailed ==
  \/ boot_status \notin {0, 200}
  \/ team_status \notin {0, 200}
  \/ malformed # "none"

\* C7: a failed login or a failed universe or roster fetch ends the run in an
\* error with nothing sent; tg_send is called only after login and both
\* fetches succeeded.
C7_NoSendAfterFailure ==
  /\ (InputsNotFound \/ NeverConfirmed \/ FetchFailed) => (pc = "error" /\ sent = <<>>)
  /\ sent # <<>> =>
       /\ ctx = "session"
       /\ boot_status = 200 /\ team_status = 200 /\ malformed = "none"

\* the roster fetch was refused after a good login and universe fetch
C7_Witness ==
  /\ pc = "error" /\ err = "HTTPError"
  /\ ctx = "session" /\ boot_status = 200 /\ team_status = 403
  /\ sent = <<>>

\* ----- C8 -----
DeliveryFailed == tg_raised \/ tg_status \notin {0, 200}

\* C8: a delivery failure (non-success status, or the API unreachable) is
\* logged and the run goes on to close the browser and finish without error.
C8_DeliveryFailureDoesNotUnwind ==
  DeliveryFailed => (tg_logged /\ pc \in {"close", "done"} /\ err = "none")

\* ----- C9 -----
\* C9: the quota test counts the roster with only the current sell removed:
\* a candidate of the sell's own club is never refused for quota, a
\* candidate of another club that holds 3 owned players always is, and
\* club_cnt keeps the counts of the full roster through the loop.
C9_PostSaleQuota ==
  /\ Evaluated =>
       \A s \in Owned, b \in UniverseIds :
         /\ ( /\ Candidate(s, b) /\ Affordable(s, b) /\ ScoreDelta(s, b) > 0
              /\ by_id[b].team = by_id[s].team ) => Suggested(s, b)
         /\ ( /\ Candidate(s, b)
              /\ by_id[b].team # by_id[s].team
              /\ OwnedCount(by_id[b].team) = ClubMax ) => ~Suggested(s, b)
  /\ pc \in {"eval", "send", "close", "done"} =>
       /\ DOMAIN club_cnt = {by_id[pid].team : pid \in Owned}
       /\ \A t \in DOMAIN club_cnt : club_cnt[t] = OwnedCount(t)
  /\ (pc = "eval" /\ si > 1) =>
       \A t \in DOMAIN counts :
          counts[t] = Cardinality({pid \in Owned \ {team_ids[si - 1]} : by_id[pid].team = t})

\* with 3 owned players of one club, a candidate of that club was suggested
\* for a sell of the same club and refused for a sell of another club
C9_Witness ==
  /\ Evaluated
  /\ \E s1 \in Owned, s2 \in Owned, b \in UniverseIds :
       /\ OwnedCount(by_id[b].team) = ClubMax
       /\ Candidate(s1, b) /\ by_id[s1].team = by_id[b].team /\ Suggested(s1, b)
       /\ Candidate(s2, b) /\ by_id[s2].team # by_id[b].team
       /\ Affordable(s2, b) /\ ScoreDelta(s2, b) > 0 /\ ~Suggested(s2, b)

\* ----- C10 -----
Polling == ctx = "none" /\ pc \in {"poll", "polled", "error"}

C10_State ==
  /\ probes <= ProbeLimit
  /\ Polling => waited_ms = ProbeWaitMs * (IF ok THEN probes - 1 ELSE probes)
  /\ (Polling /\ ok) => pc = "polled"
  /\ (pc = "polled" /\ ~ok) => probes = ProbeLimit
  /\ err = "RuntimeError" => (probes = ProbeLimit /\ ~ok /\ ctx = "none")

C10_Step ==
  /\ (ctx = "none" /\ ctx' = "session") => ok
  /\ probes' > probes => ~ok

\* C10: at most 24 probes, 500 ms apart; login succeeds at the first 200 and
\* probes no more; after 24 non-200 probes the loop ends and login fails
\* with an error; no session is returned without a 200 probe.
C10_BoundedPolling == []C10_State /\ [][C10_Step]_vars

\* all 24 probes failed and login raised after 24 waits
C10_Witness ==
  /\ pc = "error" /\ err = "RuntimeError"
  /\ probes = ProbeLimit /\ waited_ms = ProbeLimit * ProbeWaitMs

====
